---- MODULE Spec2Model ----
(***************************************************************************)
(* Furniture store server: order creation, checkout, cart and order-status *)
(* handlers as interleaved request steps over the database tables, and the *)
(* recommendation composer as a function of the tables.                    *)
(*                                                                         *)
(* Every `await prisma...` of a handler is one step of the request that    *)
(* runs it; between two steps of one request any step of another request   *)
(* may run.  A prisma.$transaction block and a nested create are one step. *)
(* Money is counted in cents (the columns are DECIMAL(10,2)).              *)
(***************************************************************************)
EXTENDS Integers, Sequences, FiniteSets, TLC

\* ---------------------------------------------------------------- bounds
NUsers == 1          \* registered users
NFurn == 2           \* furniture rows of the seeded catalog
MaxItems == 2        \* longest explicit items array of a request
MaxQty == 2          \* largest quantity of a request or of a cart row
MaxOrders == 1
MaxRaceOrders == 2    \* orders created by concurrent checkouts of one cart       \* Order rows created in one run
NSlots == 2          \* requests in flight at the same time
NRecFurn == 4        \* furniture rows of the catalog recommendations are drawn from
MaxRecOrders == 2    \* Order rows of the purchase histories recommendations are drawn from
MaxRecLimit == 3     \* largest accepted limit requested
NSimFurn == 3        \* furniture rows of the catalog similar items are drawn from

NCalls == 3          \* api calls the client makes on one page
MaxRecordCalls == 4  \* samples recorded in one run
MaxReviews == 2      \* Review rows created in one run
NReviewers == 2      \* users whose reviews a rated catalog holds

maxMetrics == 1000   \* PerformanceMonitor.maxMetrics
MinLimit == 1        \* limit < 1 is rejected
MaxLimit == 50       \* limit > 50 is rejected
MinRating == 1       \* a rating below 1 is rejected
MaxRating == 5       \* a rating above 5 is rejected

Users == 1..NUsers
Calls == 1..NCalls
CategoryIds == {1, 2}              \* the Category rows
NoUser == 0          \* req.user is absent
FurnIds == 1..NFurn
ReqFurnIds == 1..(NFurn + 1)       \* NFurn + 1 is an id with no Furniture row
Prices == {100, 250}
BodyQty == 0..MaxQty               \* quantities a request body may carry
Slots == 1..NSlots
Statuses == {"PENDING", "COMPLETED", "CANCELLED"}

\* ---------------------------------------------------------------- state
VARIABLES
  furniture,   \* Furniture table: id -> [price, categoryId]
  cartItems,   \* CartItem table: set of [userId, furnitureId, quantity]
  orders,      \* Order table with its OrderItems: order id = index
  reviews,     \* Review table: set of [id, userId, furnitureId, rating]
  req,         \* the requests in flight, one per slot
  response,    \* the response sent by the last step, NoResponse if it sent none
  recommendations, \* the payload of the last recommendation response, with its request
  isRefreshing,    \* client: the interceptor's module flag
  failedQueue,     \* client: the calls waiting for the refresh, in arrival order
  calls,           \* client: each api call's place in its promise chain
  storage,         \* client: localStorage token and refreshToken (0 when absent)
  onAuthPage,      \* client: window.location.pathname includes '/auth/'
  navigating,      \* client: window.location.href has been assigned
  metrics,         \* PerformanceMonitor.metrics: the stamps of the samples held
  queryMetrics,    \* PerformanceMonitor.queryMetrics
  recorded         \* how many samples each record method has been given

serverSide == <<furniture, cartItems, orders, reviews, req, response, recommendations>>
clientSide == <<isRefreshing, failedQueue, calls, storage, onAuthPage, navigating>>
monitorSide == <<metrics, queryMetrics, recorded>>
otherSide == <<clientSide, monitorSide>>
vars == <<serverSide, clientSide, monitorSide>>

\* What the order, cart and catalog handlers neither read nor write.
readSide == <<reviews, recommendations>>

Idle ==
  [op |-> "idle", pc |-> "done", userId |-> NoUser, itemsData |-> <<>>,
   total |-> 0, shouldClearCart |-> FALSE, orderId |-> 0, status |-> "PENDING",
   furnitureId |-> 0, quantity |-> 0, existing |-> 0, rating |-> 0]

\* A new request takes the first slot whose previous request has been answered.
Free(s) == req[s].pc = "done" /\ \A t \in Slots : t < s => req[t].pc # "done"

NoResponse == [op |-> "idle", code |-> 0, shouldClearCart |-> FALSE]
\* No recommendation payload: what a request that fails leaves behind.
NoRecommendations ==
  [userId |-> NoUser, refId |-> 0, limit |-> 0, excludeId |-> 0,
   algorithm |-> "none", items |-> <<>>]

\* res.status(code).json(...): the handler of the request in slot s (or of a new
\* request of kind op) returns with its shouldClearCart; the requests still in
\* flight keep their order and fill the first slots.
Answer(s, op, code) ==
  /\ req' = [t \in Slots |-> IF t < s THEN req[t]
                             ELSE IF t < NSlots THEN req[t + 1] ELSE Idle]
  /\ response' = [op |-> op, code |-> code, shouldClearCart |-> req[s].shouldClearCart]
  /\ UNCHANGED otherSide

\* The request in slot s goes on to its next query as r.
Continue(s, r) ==
  /\ req' = [req EXCEPT ![s] = r]
  /\ response' = NoResponse
  /\ UNCHANGED otherSide


Range(s) == {s[i] : i \in DOMAIN s}

\* Sum of unitPrice * quantity over the OrderItems of an order.
RECURSIVE ItemsSum(_)
ItemsSum(items) ==
  IF items = <<>> THEN 0
  ELSE Head(items).unitPrice * Head(items).quantity + ItemsSum(Tail(items))

\* ------------------------------------------------------- database helpers
\* prisma.furniture.findMany({ where: { id: { in: ids } } }): the rows found.
FindFurniture(ids) == {f \in DOMAIN furniture : f \in Range(ids)}

\* The CartItem rows of the cart of user u.
CartRows(u) == {ci \in cartItems : ci.userId = u}

\* cart.items as the list the query returns (rows in furniture-id order).
RECURSIVE RowsToSeq(_)
RowsToSeq(rows) ==
  IF rows = {} THEN <<>>
  ELSE LET first == CHOOSE ci \in rows : \A cj \in rows : ci.furnitureId <= cj.furnitureId
       IN <<first>> \o RowsToSeq(rows \ {first})

\* Order rows being created by requests that have passed validation.
Creating == {t \in Slots : req[t].pc \in {"create", "tx"}}
CanCreate == Len(orders) + Cardinality(Creating) < MaxOrders

\* The database accepts the nested create of an Order with its OrderItems:
\* OrderItem_furnitureId_fkey and OrderItem_orderId_furnitureId_key.
FkOk(itemsData) == \A i \in DOMAIN itemsData : itemsData[i].furnitureId \in DOMAIN furniture
UniqueOk(itemsData) ==
  \A i, j \in DOMAIN itemsData : itemsData[i].furnitureId = itemsData[j].furnitureId => i = j

NewOrder(u, stat, total, itemsData) ==
  [userId |-> u, status |-> stat, totalAmount |-> total, items |-> itemsData]

\* ------------------------------------------------------------ placeOrder
\* Variant: the list is accepted as soon as one of its ids is found.
AllFoundSomeFound(directItems) ==
  Cardinality(FindFurniture([i \in DOMAIN directItems |-> directItems[i].furnitureId])) > 0

\* The explicit items list is accepted when as many rows are found as ids given.
AllFound(directItems) ==
  Cardinality(FindFurniture([i \in DOMAIN directItems |-> directItems[i].furnitureId]))
    = Len(directItems)

\* Variant: the running total adds the unit price once per item, not per unit.
RECURSIVE PriceItemsNoQuantity(_)
PriceItemsNoQuantity(directItems) ==
  IF directItems = <<>> THEN [itemsData |-> <<>>, total |-> 0]
  ELSE LET item == Head(directItems)
           rest == PriceItemsNoQuantity(Tail(directItems))
       IN IF item.furnitureId \notin DOMAIN furniture THEN rest
          ELSE LET unitPrice == furniture[item.furnitureId].price
               IN [itemsData |-> <<[furnitureId |-> item.furnitureId,
                                    quantity |-> item.quantity,
                                    unitPrice |-> unitPrice]>> \o rest.itemsData,
                   total |-> unitPrice + rest.total]

\* The loop over directItems: unit price snapshot and running total.
RECURSIVE PriceItems(_)
PriceItems(directItems) ==
  IF directItems = <<>> THEN [itemsData |-> <<>>, total |-> 0]
  ELSE LET item == Head(directItems)
           rest == PriceItems(Tail(directItems))
       IN IF item.furnitureId \notin DOMAIN furniture THEN rest
          ELSE LET unitPrice == furniture[item.furnitureId].price
               IN [itemsData |-> <<[furnitureId |-> item.furnitureId,
                                    quantity |-> item.quantity,
                                    unitPrice |-> unitPrice]>> \o rest.itemsData,
                   total |-> unitPrice * item.quantity + rest.total]

\* cart.items.map(...): one order item per cart row, total accumulated.
RECURSIVE PriceCart(_)
PriceCart(rows) ==
  IF rows = <<>> THEN [itemsData |-> <<>>, total |-> 0]
  ELSE LET ci == Head(rows)
           rest == PriceCart(Tail(rows))
           unitPrice == furniture[ci.furnitureId].price
       IN [itemsData |-> <<[furnitureId |-> ci.furnitureId,
                            quantity |-> ci.quantity,
                            unitPrice |-> unitPrice]>> \o rest.itemsData,
           total |-> unitPrice * ci.quantity + rest.total]

\* Variant: a request without a user is let through.
AuthenticationRequiredNever(u) == FALSE

\* `if (!userId) throw new ApiError(401, ...)`, after authMiddleware has answered
\* 401 itself to a request without a valid token.
AuthenticationRequired(u) == u = NoUser

\* POST /checkout/place up to its first query and the checks on its result.
PlaceOrderRead(s, u, directItems) ==
  /\ Free(s)
  /\ LET r0 == [Idle EXCEPT !.op = "placeOrder", !.pc = "create", !.userId = u] IN
     IF AuthenticationRequired(u) THEN Answer(s, "placeOrder", 401)
     ELSE IF Len(directItems) > 0
       THEN IF ~AllFound(directItems) THEN Answer(s, "placeOrder", 404)
            ELSE LET p == PriceItems(directItems) IN
                 IF Len(p.itemsData) = 0 THEN Answer(s, "placeOrder", 400)
                 ELSE Continue(s, [r0 EXCEPT !.itemsData = p.itemsData, !.total = p.total])
       ELSE IF CartRows(u) = {} THEN Answer(s, "placeOrder", 400)
            ELSE LET p == PriceCart(RowsToSeq(CartRows(u))) IN
                 Continue(s, [r0 EXCEPT !.itemsData = p.itemsData, !.total = p.total,
                                        !.shouldClearCart = TRUE])
  /\ UNCHANGED <<furniture, cartItems, orders>>
  /\ UNCHANGED readSide

\* prisma.order.create with nested items, status COMPLETED.
PlaceOrderCreate(s) ==
  /\ req[s].op = "placeOrder" /\ req[s].pc = "create"
  /\ LET r == req[s] IN
     IF ~FkOk(r.itemsData) \/ ~UniqueOk(r.itemsData)
     THEN /\ Answer(s, "placeOrder", IF FkOk(r.itemsData) THEN 409 ELSE 400)
          /\ UNCHANGED orders
     ELSE /\ orders' = Append(orders, NewOrder(r.userId, "COMPLETED", r.total, r.itemsData))
          /\ IF r.shouldClearCart
             THEN Continue(s, [r EXCEPT !.pc = "clear", !.itemsData = <<>>, !.total = 0])
             ELSE Answer(s, "placeOrder", 201)
  /\ UNCHANGED <<furniture, cartItems>>
  /\ UNCHANGED readSide

\* Variant: a single row (the first of the cart) is deleted.
ClearedRowsFirstOnly(r) ==
  {ci \in CartRows(r.userId) : \A cj \in CartRows(r.userId) : ci.furnitureId <= cj.furnitureId}

\* The rows prisma.cartItem.deleteMany({ where: { cartId } }) removes.
ClearedRows(r) == CartRows(r.userId)

\* The cart is looked up again (every user owns one) and its rows are deleted.
PlaceOrderClear(s) ==
  /\ req[s].op = "placeOrder" /\ req[s].pc = "clear"
  /\ cartItems' = cartItems \ ClearedRows(req[s])
  /\ Answer(s, "placeOrder", 201)
  /\ UNCHANGED <<furniture, orders>>
  /\ UNCHANGED readSide

\* POST /checkout/guest: answered 401 by authMiddleware without a valid token
\* and by the handler with one.
GuestCheckout(s, u) ==
  /\ Free(s)
  /\ Answer(s, "guestCheckout", 401)
  /\ UNCHANGED <<furniture, cartItems, orders>>
  /\ UNCHANGED readSide

\* ----------------------------------------------------------- createOrder
\* createOrderSchema: at least one item, every quantity a positive integer.
SchemaOk(items) ==
  /\ Len(items) >= 1
  /\ \A i \in DOMAIN items : items[i].furnitureId > 0 /\ items[i].quantity > 0

\* POST /orders up to the transaction: schema, requester, furniture lookup, totals.
CreateOrderRead(s, u, items, guestInfo) ==
  /\ Free(s)
  /\ LET r0 == [Idle EXCEPT !.op = "createOrder", !.pc = "tx", !.userId = u] IN
     IF ~SchemaOk(items) THEN Answer(s, "createOrder", 400)
     ELSE IF u = NoUser /\ ~guestInfo THEN Answer(s, "createOrder", 400)
     ELSE IF ~AllFound(items) THEN Answer(s, "createOrder", 404)
     ELSE LET p == PriceItems(items) IN
          Continue(s, [r0 EXCEPT !.itemsData = p.itemsData, !.total = p.total])
  /\ UNCHANGED <<furniture, cartItems, orders>>
  /\ UNCHANGED readSide

\* The rows tx.cartItem.deleteMany({ where: { cart: { userId } } }) removes.
TxClearedRows(r) == IF r.userId # NoUser THEN CartRows(r.userId) ELSE {}

\* prisma.$transaction: the order with its items, status PENDING, then the cart rows.
CreateOrderTx(s) ==
  /\ req[s].op = "createOrder" /\ req[s].pc = "tx"
  /\ LET r == req[s] IN
     IF ~FkOk(r.itemsData) \/ ~UniqueOk(r.itemsData)
     THEN /\ Answer(s, "createOrder", IF FkOk(r.itemsData) THEN 409 ELSE 400)
          /\ UNCHANGED <<orders, cartItems>>
     ELSE /\ orders' = Append(orders, NewOrder(r.userId, "PENDING", r.total, r.itemsData))
          /\ cartItems' = cartItems \ TxClearedRows(r)
          /\ Answer(s, "createOrder", 201)
  /\ UNCHANGED furniture
  /\ UNCHANGED readSide

\* ----------------------------------------------------- updateOrderStatus
\* Variant: only a completed order is protected.
TransitionRejectedCompletedOnly(existingStatus, status) ==
  existingStatus = "COMPLETED" /\ status # "COMPLETED"

\* The transition check on the status read by findUnique.
TransitionRejected(existingStatus, status) ==
  \/ existingStatus = "COMPLETED" /\ status # "COMPLETED"
  \/ existingStatus = "CANCELLED" /\ status # "CANCELLED"

\* PATCH /orders/:id/status up to the check of the stored status.
UpdateOrderStatusRead(s, id, status) ==
  /\ Free(s)
  /\ IF id \notin DOMAIN orders THEN Answer(s, "updateOrderStatus", 404)
     ELSE IF TransitionRejected(orders[id].status, status)
       THEN Answer(s, "updateOrderStatus", 400)
       ELSE Continue(s, [Idle EXCEPT !.op = "updateOrderStatus", !.pc = "update",
                                     !.orderId = id, !.status = status])
  /\ UNCHANGED <<furniture, cartItems, orders>>
  /\ UNCHANGED readSide

\* prisma.order.update({ where: { id }, data: { status } }).
UpdateOrderStatusWrite(s) ==
  /\ req[s].op = "updateOrderStatus" /\ req[s].pc = "update"
  /\ orders' = [orders EXCEPT ![req[s].orderId].status = req[s].status]
  /\ Answer(s, "updateOrderStatus", 200)
  /\ UNCHANGED <<furniture, cartItems>>
  /\ UNCHANGED readSide

\* -------------------------------------------------------------- addToCart
\* The quantity of the row findFirst returns for (cart, furniture), 0 for none.
ExistingQty(u, f) ==
  IF \E ci \in CartRows(u) : ci.furnitureId = f
  THEN (CHOOSE ci \in CartRows(u) : ci.furnitureId = f).quantity
  ELSE 0

\* POST /cart/add up to the lookup of the existing row.
AddToCartRead(s, u, f, q) ==
  /\ Free(s)
  /\ ExistingQty(u, f) + q <= MaxQty
  /\ IF q < 1 THEN Answer(s, "addToCart", 400)
     ELSE IF f \notin DOMAIN furniture THEN Answer(s, "addToCart", 404)
     ELSE Continue(s, [Idle EXCEPT !.op = "addToCart", !.pc = "write", !.userId = u,
                                   !.furnitureId = f, !.quantity = q,
                                   !.existing = ExistingQty(u, f)])
  /\ UNCHANGED <<furniture, cartItems, orders>>
  /\ UNCHANGED readSide

\* Variant: the table has no unique index on (cart, furniture).
CartItemUniqueOkNoIndex(u, f) == TRUE

\* CartItem_cartId_furnitureId_key accepts the insert.
CartItemUniqueOk(u, f) == ExistingQty(u, f) = 0

\* cartItem.update of the row found, or cartItem.create of a new row.
AddToCartWrite(s) ==
  /\ req[s].op = "addToCart" /\ req[s].pc = "write"
  /\ LET r == req[s]
         now == ExistingQty(r.userId, r.furnitureId)
         row(q) == [userId |-> r.userId, furnitureId |-> r.furnitureId, quantity |-> q]
     IN IF r.existing > 0
        THEN IF now = 0
             THEN Answer(s, "addToCart", 404) /\ UNCHANGED cartItems
             ELSE /\ cartItems' = (cartItems \ {row(now)}) \cup {row(r.existing + r.quantity)}
                  /\ Answer(s, "addToCart", 200)
        ELSE IF ~CartItemUniqueOk(r.userId, r.furnitureId)
             THEN Answer(s, "addToCart", 409) /\ UNCHANGED cartItems
             ELSE IF r.furnitureId \notin DOMAIN furniture
             THEN Answer(s, "addToCart", 400) /\ UNCHANGED cartItems
             ELSE /\ cartItems' = cartItems \cup {row(r.quantity)}
                  /\ Answer(s, "addToCart", 201)
  /\ UNCHANGED <<furniture, orders>>
  /\ UNCHANGED readSide

\* -------------------------------------------------------- updateFurniture
\* Variant: the new price is also written to the order items of the furniture.
UpdateFurnitureRepricing(f, p) ==
  /\ f \in DOMAIN furniture
  /\ furniture[f].price # p
  /\ furniture' = [furniture EXCEPT ![f].price = p]
  /\ orders' = [n \in DOMAIN orders |->
                  [orders[n] EXCEPT !.items =
                     [i \in DOMAIN orders[n].items |->
                        IF orders[n].items[i].furnitureId = f
                        THEN [orders[n].items[i] EXCEPT !.unitPrice = p]
                        ELSE orders[n].items[i]]]]
  /\ response' = NoResponse
  /\ UNCHANGED <<cartItems, req, otherSide>>
  /\ UNCHANGED readSide

\* PUT /furnitures/:id with a new price: only the Furniture row is written.
UpdateFurniture(f, p) ==
  /\ f \in DOMAIN furniture
  /\ furniture[f].price # p
  /\ furniture' = [furniture EXCEPT ![f].price = p]
  /\ response' = NoResponse
  /\ UNCHANGED <<cartItems, orders, req, otherSide>>
  /\ UNCHANGED readSide

\* ----------------------------------------------------------- createReview
\* createReviewSchema: the rating is an integer from 1 to 5.
ReviewSchemaOk(rating) == rating >= MinRating /\ rating <= MaxRating

\* orderItem.findFirst({ furnitureId, order: { userId, status: 'COMPLETED' } }).
HasPurchased(u, f) ==
  \E n \in DOMAIN orders :
    /\ orders[n].userId = u /\ orders[n].status = "COMPLETED"
    /\ \E i \in DOMAIN orders[n].items : orders[n].items[i].furnitureId = f

\* review.findUnique({ userId_furnitureId }): the review of the pair, if any.
ExistingReview(u, f) == {rv \in reviews : rv.userId = u /\ rv.furnitureId = f}

\* Variant: the table has no unique index on the pair.
ReviewUniqueOkNoIndex(u, f) == TRUE

\* Review_userId_furnitureId_key accepts the insert.
ReviewUniqueOk(u, f) == ExistingReview(u, f) = {}

\* POST /reviews up to the purchase check: schema, user, furniture, hasPurchased.
CreateReviewRead(s, u, f, rating) ==
  /\ Free(s)
  /\ Cardinality(reviews) < MaxReviews
  /\ IF ~ReviewSchemaOk(rating) THEN Answer(s, "createReview", 400)
     ELSE IF u \notin Users \/ f \notin DOMAIN furniture THEN Answer(s, "createReview", 404)
     ELSE IF ~HasPurchased(u, f) THEN Answer(s, "createReview", 403)
     ELSE Continue(s, [Idle EXCEPT !.op = "createReview", !.pc = "existing", !.userId = u,
                                   !.furnitureId = f, !.rating = rating])
  /\ UNCHANGED <<furniture, cartItems, orders, reviews, recommendations>>

\* The lookup of a review the user already wrote for the furniture.
CreateReviewExisting(s) ==
  /\ req[s].op = "createReview" /\ req[s].pc = "existing"
  /\ IF ExistingReview(req[s].userId, req[s].furnitureId) # {}
     THEN Answer(s, "createReview", 400)
     ELSE Continue(s, [req[s] EXCEPT !.pc = "insert"])
  /\ UNCHANGED <<furniture, cartItems, orders, reviews, recommendations>>

\* prisma.review.create: P2002 of the unique index is answered 409, P2003 of
\* a foreign key 400.
CreateReviewInsert(s) ==
  /\ req[s].op = "createReview" /\ req[s].pc = "insert"
  /\ LET r == req[s] IN
     IF ~ReviewUniqueOk(r.userId, r.furnitureId)
     THEN Answer(s, "createReview", 409) /\ UNCHANGED reviews
     ELSE IF r.furnitureId \notin DOMAIN furniture
     THEN Answer(s, "createReview", 400) /\ UNCHANGED reviews
     ELSE /\ reviews' = reviews \cup {[id |-> Cardinality(reviews) + 1, userId |-> r.userId,
                                        furnitureId |-> r.furnitureId, rating |-> r.rating]}
          /\ Answer(s, "createReview", 201)
  /\ UNCHANGED <<furniture, cartItems, orders, recommendations>>

\* -------------------------------------------------------- recommendations
\* The OrderItems of the COMPLETED orders of user u, each with its furniture's
\* category: the purchase history both queries of the handler fetch.
RECURSIVE PurchaseHistory(_, _)
PurchaseHistory(u, n) ==
  IF n = 0 THEN <<>>
  ELSE PurchaseHistory(u, n - 1) \o
       (IF orders[n].userId = u /\ orders[n].status = "COMPLETED"
        THEN [i \in DOMAIN orders[n].items |->
                [furnitureId |-> orders[n].items[i].furnitureId,
                 categoryId |-> furniture[orders[n].items[i].furnitureId].categoryId]]
        ELSE <<>>)

UserOrders(u) == PurchaseHistory(u, Len(orders))

ReviewCount(f) == Cardinality({rv \in reviews : rv.furnitureId = f})

\* _count of the OrderItem rows that reference furniture f, in orders of any status.
RECURSIVE OrderItemCount(_, _)
OrderItemCount(f, n) ==
  IF n = 0 THEN 0
  ELSE OrderItemCount(f, n - 1)
       + Cardinality({i \in DOMAIN orders[n].items : orders[n].items[i].furnitureId = f})

\* orderBy reviews._count desc, createdAt desc (rows are created in id order).
ByReviews(f, g) ==
  \/ ReviewCount(f) > ReviewCount(g)
  \/ ReviewCount(f) = ReviewCount(g) /\ f >= g

\* orderBy createdAt desc.
ByCreatedAt(f, g) == f >= g

\* orderBy orderItems._count desc, reviews._count desc, createdAt desc.
ByOrders(f, g) ==
  \/ OrderItemCount(f, Len(orders)) > OrderItemCount(g, Len(orders))
  \/ OrderItemCount(f, Len(orders)) = OrderItemCount(g, Len(orders)) /\ ByReviews(f, g)

\* findMany with orderBy and take: the first `take` of the rows, best first.
RECURSIVE TakeOrdered(_, _, _)
TakeOrdered(rows, Before(_, _), take) ==
  IF rows = {} \/ take <= 0 THEN <<>>
  ELSE LET first == CHOOSE f \in rows : \A g \in rows : Before(f, g)
       IN <<first>> \o TakeOrdered(rows \ {first}, Before, take - 1)

\* The reviews included with furniture f.
ReviewsOf(f) == {rv \in reviews : rv.furnitureId = f}

\* item.reviews.reduce((sum, review) => sum + review.rating, 0).
RECURSIVE RatingSum(_)
RatingSum(rvs) ==
  IF rvs = {} THEN 0
  ELSE LET rv == CHOOSE x \in rvs : TRUE IN rv.rating + RatingSum(rvs \ {rv})

\* Variant: the quotient is cut to an integer.
AverageRatingInteger(f) ==
  IF ReviewCount(f) > 0
  THEN [null |-> FALSE, num |-> RatingSum(ReviewsOf(f)) \div ReviewCount(f), den |-> 1]
  ELSE [null |-> TRUE, num |-> 0, den |-> 1]

\* `reviews.length > 0 ? sum / reviews.length : null`: the quotient num / den.
AverageRating(f) ==
  IF ReviewCount(f) > 0
  THEN [null |-> FALSE, num |-> RatingSum(ReviewsOf(f)), den |-> ReviewCount(f)]
  ELSE [null |-> TRUE, num |-> 0, den |-> 1]

\* items.map(item => ({ ...item, averageRating, reviewCount })), with the tier
\* the item came from.
Tagged(ids, tier) ==
  [i \in DOMAIN ids |-> [id |-> ids[i], tier |-> tier,
                         averageRating |-> AverageRating(ids[i]),
                         reviewCount |-> ReviewCount(ids[i])]]
Ids(items) == {items[i].id : i \in DOMAIN items}

\* Variant: the excluded id is ignored.
ExcludedNone(excludeId) == {}

\* `excludeId ? [..., excludeId] : ...`: an absent excludeId (0) excludes nothing.
Excluded(excludeId) == IF excludeId # 0 THEN {excludeId} ELSE {}

\* getCollaborativeRecommendations: furniture of the purchased categories that is
\* neither purchased nor the excluded id.
CollaborativeExcludeIds(userOrders, excludeId) ==
  {userOrders[i].furnitureId : i \in DOMAIN userOrders} \cup Excluded(excludeId)

GetCollaborativeRecommendations(u, limit, excludeId) ==
  LET userOrders == UserOrders(u)
      categoryIds == {userOrders[i].categoryId : i \in DOMAIN userOrders}
      excludeIds == CollaborativeExcludeIds(userOrders, excludeId)
  IN IF Len(userOrders) = 0 THEN <<>>
     ELSE TakeOrdered({f \in DOMAIN furniture :
                         furniture[f].categoryId \in categoryIds /\ f \notin excludeIds},
                      ByReviews, limit)

\* getCategoryBasedRecommendations: furniture of the purchased categories that is
\* neither already collected nor the excluded id.
CategoryExcludeIds(excludeId, excludeIds) == excludeIds \cup Excluded(excludeId)

GetCategoryBasedRecommendations(userOrders, limit, excludeId, excludeIds) ==
  LET preferredCategories == {userOrders[i].categoryId : i \in DOMAIN userOrders}
  IN IF preferredCategories = {} THEN <<>>
     ELSE TakeOrdered({f \in DOMAIN furniture :
                         /\ furniture[f].categoryId \in preferredCategories
                         /\ f \notin CategoryExcludeIds(excludeId, excludeIds)},
                      ByReviews, limit)

\* Variant: only furniture that has been ordered counts as popular.
GetPopularRecommendationsHelperOrderedOnly(limit, excludeId, excludeIds) ==
  TakeOrdered({f \in DOMAIN furniture :
                 /\ f \notin excludeIds \cup Excluded(excludeId)
                 /\ OrderItemCount(f, Len(orders)) > 0},
              ByOrders, limit)

\* Variant: the ids already collected are not excluded.
GetPopularRecommendationsHelperAll(limit, excludeId, excludeIds) ==
  TakeOrdered({f \in DOMAIN furniture : f \notin Excluded(excludeId)}, ByOrders, limit)

\* getPopularRecommendationsHelper.
GetPopularRecommendationsHelper(limit, excludeId, excludeIds) ==
  TakeOrdered({f \in DOMAIN furniture : f \notin excludeIds \cup Excluded(excludeId)},
              ByOrders, limit)

\* Variant: the popularity query asks for one item more than the limit and the
\* result is returned as it is.
UserRecommendationsOneMore(u, limit, excludeId) ==
  [userId |-> u, refId |-> 0, limit |-> limit, excludeId |-> excludeId,
   algorithm |-> IF Len(UserOrders(u)) > 0 THEN "hybrid" ELSE "popular",
   items |-> Tagged(GetPopularRecommendationsHelper(limit + 1, excludeId, {}), "popular")]

\* The three tiers chained by getUserRecommendations, each item with its tier
\* (only the items of the popularity tier carry orderCount in the payload).
UserRecommendations(u, limit, excludeId) ==
  LET userOrders == UserOrders(u)
      collaborative ==
        IF Len(userOrders) > 0
        THEN Tagged(GetCollaborativeRecommendations(u, limit, excludeId), "collaborative")
        ELSE <<>>
      category ==
        IF Len(userOrders) > 0 /\ Len(collaborative) < limit
        THEN Tagged(GetCategoryBasedRecommendations(userOrders, limit - Len(collaborative),
                                                    excludeId, Ids(collaborative)),
                    "category")
        ELSE <<>>
      first == collaborative \o category
      popular ==
        IF Len(first) < limit
        THEN Tagged(GetPopularRecommendationsHelper(limit - Len(first), excludeId, Ids(first)),
                    "popular")
        ELSE <<>>
      all == first \o popular
  IN [userId |-> u, refId |-> 0, limit |-> limit, excludeId |-> excludeId,
      algorithm |-> IF Len(userOrders) > 0 THEN "hybrid" ELSE "popular",
      items |-> SubSeq(all, 1, IF Len(all) < limit THEN Len(all) ELSE limit)]

\* Variant: only the upper end of the range is checked.
LimitRejectedUpperOnly(limit) == limit > MaxLimit

\* `if (limit < 1 || limit > 50) throw new ApiError(400, ...)`.
LimitRejected(limit) == limit < MinLimit \/ limit > MaxLimit

\* GET /recommendations/user/:userId?limit=&excludeId=
GetUserRecommendations(u, limit, excludeId) ==
  /\ IF LimitRejected(limit)
     THEN /\ response' = [op |-> "getUserRecommendations", code |-> 400, shouldClearCart |-> FALSE]
          /\ recommendations' = NoRecommendations
     ELSE IF u \notin Users
     THEN /\ response' = [op |-> "getUserRecommendations", code |-> 404, shouldClearCart |-> FALSE]
          /\ recommendations' = NoRecommendations
     ELSE /\ response' = [op |-> "getUserRecommendations", code |-> 200, shouldClearCart |-> FALSE]
          /\ recommendations' = UserRecommendations(u, limit, excludeId)
  /\ UNCHANGED <<furniture, cartItems, orders, reviews, req, otherSide>>

\* ------------------------------------- getPopularItems, getCategoryRecommendations
\* GET /recommendations/popular?limit=&excludeId=
GetPopularItems(limit, excludeId) ==
  /\ IF LimitRejected(limit)
     THEN /\ response' = [op |-> "getPopularItems", code |-> 400, shouldClearCart |-> FALSE]
          /\ recommendations' = NoRecommendations
     ELSE /\ response' = [op |-> "getPopularItems", code |-> 200, shouldClearCart |-> FALSE]
          /\ recommendations' =
               [userId |-> NoUser, refId |-> 0, limit |-> limit, excludeId |-> excludeId,
                algorithm |-> "popular",
                items |-> Tagged(GetPopularRecommendationsHelper(limit, excludeId, {}),
                                 "popular")]
  /\ UNCHANGED <<furniture, cartItems, orders, reviews, req, otherSide>>

\* GET /recommendations/category/:categoryId?limit=&excludeId=
GetCategoryRecommendations(categoryId, limit, excludeId) ==
  /\ IF LimitRejected(limit)
     THEN /\ response' = [op |-> "getCategoryRecommendations", code |-> 400, shouldClearCart |-> FALSE]
          /\ recommendations' = NoRecommendations
     ELSE IF categoryId \notin CategoryIds
     THEN /\ response' = [op |-> "getCategoryRecommendations", code |-> 404, shouldClearCart |-> FALSE]
          /\ recommendations' = NoRecommendations
     ELSE /\ response' = [op |-> "getCategoryRecommendations", code |-> 200, shouldClearCart |-> FALSE]
          /\ recommendations' =
               [userId |-> NoUser, refId |-> categoryId, limit |-> limit,
                excludeId |-> excludeId, algorithm |-> "category-based",
                items |-> Tagged(TakeOrdered({f \in DOMAIN furniture :
                                                /\ furniture[f].categoryId = categoryId
                                                /\ f \notin Excluded(excludeId)},
                                             ByReviews, limit),
                                 "category")]
  /\ UNCHANGED <<furniture, cartItems, orders, reviews, req, otherSide>>

\* ------------------------------------------------ listFurnitures, getFurniture
\* GET /furnitures?sortBy=createdAt&sortOrder=desc&page=&limit=: the rows of the
\* page with their ratings.
ListFurnitures(page, limit) ==
  /\ LET upto == TakeOrdered(DOMAIN furniture, ByCreatedAt, page * limit)
         skip == (page - 1) * limit
     IN recommendations' =
          [userId |-> NoUser, refId |-> 0, limit |-> limit, excludeId |-> 0,
           algorithm |-> "list",
           items |-> Tagged(IF Len(upto) > skip THEN SubSeq(upto, skip + 1, Len(upto))
                            ELSE <<>>, "list")]
  /\ response' = [op |-> "listFurnitures", code |-> 200, shouldClearCart |-> FALSE]
  /\ UNCHANGED <<furniture, cartItems, orders, reviews, req, otherSide>>

\* GET /furnitures/:id
GetFurniture(id) ==
  /\ IF id \notin DOMAIN furniture
     THEN /\ response' = [op |-> "getFurniture", code |-> 404, shouldClearCart |-> FALSE]
          /\ recommendations' = NoRecommendations
     ELSE /\ response' = [op |-> "getFurniture", code |-> 200, shouldClearCart |-> FALSE]
          /\ recommendations' =
               [userId |-> NoUser, refId |-> id, limit |-> 0, excludeId |-> 0,
                algorithm |-> "detail", items |-> Tagged(<<id>>, "detail")]
  /\ UNCHANGED <<furniture, cartItems, orders, reviews, req, otherSide>>

\* ----------------------------------------------- getSimilarRecommendations
\* Variant: only the upper end of the price range is applied.
PriceWithinUpperOnly(price, refPrice, edge) ==
  10 * price < 13 * refPrice \/ (10 * price = 13 * refPrice /\ "max" \in edge)

\* price: { gte: minPrice, lte: maxPrice } with minPrice, maxPrice = refPrice -/+
\* refPrice * 0.3, counted in tenths of a cent.  The two ends are computed in
\* floating point, so a row priced exactly at an end is matched or not: edge
\* names the ends whose rows are matched.
PriceWithin(price, refPrice, edge) ==
  /\ 7 * refPrice < 10 * price \/ (7 * refPrice = 10 * price /\ "min" \in edge)
  /\ 10 * price < 13 * refPrice \/ (10 * price = 13 * refPrice /\ "max" \in edge)

\* The rows of the category of the reference item in its price range, the
\* reference item left out, most reviewed first, at most `limit` of them.
SimilarRecommendations(furnitureId, limit, edge) ==
  LET currentFurniture == furniture[furnitureId]
      rows == {f \in DOMAIN furniture :
                 /\ furniture[f].categoryId = currentFurniture.categoryId
                 /\ f # furnitureId
                 /\ PriceWithin(furniture[f].price, currentFurniture.price, edge)}
  IN [userId |-> NoUser, refId |-> furnitureId, limit |-> limit, excludeId |-> 0,
      algorithm |-> "content-based",
      items |-> Tagged(TakeOrdered(rows, ByReviews, limit), "similar")]

\* GET /recommendations/similar/:furnitureId?limit=
GetSimilarRecommendations(furnitureId, limit, edge) ==
  /\ IF LimitRejected(limit)
     THEN /\ response' = [op |-> "getSimilarRecommendations", code |-> 400, shouldClearCart |-> FALSE]
          /\ recommendations' = NoRecommendations
     ELSE IF furnitureId \notin DOMAIN furniture
     THEN /\ response' = [op |-> "getSimilarRecommendations", code |-> 404, shouldClearCart |-> FALSE]
          /\ recommendations' = NoRecommendations
     ELSE /\ response' = [op |-> "getSimilarRecommendations", code |-> 200, shouldClearCart |-> FALSE]
          /\ recommendations' = SimilarRecommendations(furnitureId, limit, edge)
  /\ UNCHANGED <<furniture, cartItems, orders, reviews, req, otherSide>>

\* --------------------------------------------------------- deleteFurniture
\* Variant: the OrderItem foreign key does not restrict the delete.
DeleteRestrictedNever(f) == FALSE

\* OrderItem_furnitureId_fkey ON DELETE RESTRICT: an OrderItem references f.
DeleteRestricted(f) == OrderItemCount(f, Len(orders)) > 0

\* DELETE /furnitures/:id up to the check of the order items read with the row.
DeleteFurnitureRead(s, f) ==
  /\ Free(s)
  /\ IF f \notin DOMAIN furniture THEN Answer(s, "deleteFurniture", 404)
     ELSE IF OrderItemCount(f, Len(orders)) > 0 THEN Answer(s, "deleteFurniture", 400)
     ELSE Continue(s, [Idle EXCEPT !.op = "deleteFurniture", !.pc = "delete",
                                   !.furnitureId = f])
  /\ UNCHANGED <<furniture, cartItems, orders>>
  /\ UNCHANGED readSide

\* prisma.furniture.delete: P2025 for a row already gone is answered 404, P2003
\* of the restricting foreign key 400; the cart rows and the reviews of the
\* furniture go with it (ON DELETE CASCADE).
DeleteFurnitureWrite(s) ==
  /\ req[s].op = "deleteFurniture" /\ req[s].pc = "delete"
  /\ LET f == req[s].furnitureId IN
     IF f \notin DOMAIN furniture
     THEN Answer(s, "deleteFurniture", 404) /\ UNCHANGED <<furniture, cartItems, reviews>>
     ELSE IF DeleteRestricted(f)
     THEN Answer(s, "deleteFurniture", 400) /\ UNCHANGED <<furniture, cartItems, reviews>>
     ELSE /\ furniture' = [g \in DOMAIN furniture \ {f} |-> furniture[g]]
          /\ cartItems' = {ci \in cartItems : ci.furnitureId # f}
          /\ reviews' = {rv \in reviews : rv.furnitureId # f}
          /\ Answer(s, "deleteFurniture", 200)
  /\ UNCHANGED <<orders, recommendations>>

\* ------------------------------------------------- client: api interceptors
\* An api call before it is made: no _retry flag, no Authorization header.
NoCall == [pc |-> "idle", retry |-> FALSE, token |-> 0]

\* The module state of a freshly loaded page, with what localStorage holds and
\* where the page is.
PageLoaded(stored, auth) ==
  /\ isRefreshing = FALSE
  /\ failedQueue = <<>>
  /\ calls = [c \in Calls |-> NoCall]
  /\ storage = stored
  /\ onAuthPage = auth
  /\ navigating = FALSE

\* A signed-in user on a page outside /auth/.
ClientLoaded == PageLoaded([token |-> 1, refreshToken |-> 1], FALSE)

\* The calls whose refresh POST is in flight.
Refreshing == {c \in Calls : calls[c].pc = "refreshing"}

\* api(config): the request interceptor adds the stored token and the request
\* is sent.
Send(c) ==
  /\ calls[c].pc = "idle"
  /\ calls' = [calls EXCEPT ![c] = [pc |-> "sent", retry |-> FALSE, token |-> storage.token]]
  /\ UNCHANGED <<isRefreshing, failedQueue, storage, onAuthPage, navigating>>
  /\ UNCHANGED <<serverSide, monitorSide>>

\* A response that is not a 401: the call's promise is resolved (2xx) or
\* rejected with the error.
Respond(c, status) ==
  /\ calls[c].pc \in {"sent", "replayed"}
  /\ status # 401
  /\ calls' = [calls EXCEPT ![c].pc = IF status = 200 THEN "resolved" ELSE "rejected"]
  /\ UNCHANGED <<isRefreshing, failedQueue, storage, onAuthPage, navigating>>
  /\ UNCHANGED <<serverSide, monitorSide>>

\* Variant: a 401 is never queued behind the refresh in progress.
ShouldQueueNever == FALSE

\* `if (isRefreshing)`: the call waits in failedQueue.
ShouldQueue == isRefreshing

\* The error interceptor run for a 401, up to its first await or its return.
Respond401(c) ==
  /\ calls[c].pc \in {"sent", "replayed"}
  /\ IF calls[c].retry
     THEN /\ calls' = [calls EXCEPT ![c].pc = "rejected"]
          /\ UNCHANGED <<isRefreshing, failedQueue, storage, navigating>>
     ELSE IF ShouldQueue
     THEN /\ failedQueue' = Append(failedQueue, c)
          /\ calls' = [calls EXCEPT ![c].pc = "queued"]
          /\ UNCHANGED <<isRefreshing, storage, navigating>>
     ELSE /\ isRefreshing' = TRUE
          /\ IF storage.refreshToken # 0
             THEN /\ calls' = [calls EXCEPT ![c].pc = "refreshing", ![c].retry = TRUE]
                  /\ UNCHANGED <<storage, navigating>>
             ELSE /\ calls' = [calls EXCEPT ![c].pc = "rejected", ![c].retry = TRUE]
                  /\ IF ~onAuthPage
                     THEN /\ storage' = [token |-> 0, refreshToken |-> 0]
                          /\ navigating' = TRUE
                     ELSE UNCHANGED <<storage, navigating>>
          /\ UNCHANGED failedQueue
  /\ UNCHANGED onAuthPage
  /\ UNCHANGED <<serverSide, monitorSide>>

\* POST /auth/refresh succeeded: the new tokens are stored, processQueue(null,
\* newToken) resolves every waiting call, which is sent again with the new
\* token, the call that refreshed is sent again, and `finally` resets the flag.
RefreshOk(c) ==
  /\ calls[c].pc = "refreshing"
  /\ LET newToken == storage.token + 1 IN
     /\ storage' = [token |-> newToken, refreshToken |-> storage.refreshToken + 1]
     /\ calls' = [d \in Calls |->
                    IF d = c \/ d \in Range(failedQueue)
                    THEN [calls[d] EXCEPT !.pc = "replayed", !.token = newToken]
                    ELSE calls[d]]
  /\ failedQueue' = <<>>
  /\ isRefreshing' = FALSE
  /\ UNCHANGED <<onAuthPage, navigating>>
  /\ UNCHANGED <<serverSide, monitorSide>>

\* POST /auth/refresh failed: processQueue(refreshError) rejects every waiting
\* call, the tokens are removed, the page is sent to /auth/login, the call is
\* rejected and `finally` resets the flag.
RefreshFail(c) ==
  /\ calls[c].pc = "refreshing"
  /\ calls' = [d \in Calls |->
                 IF d = c \/ d \in Range(failedQueue)
                 THEN [calls[d] EXCEPT !.pc = "rejected"]
                 ELSE calls[d]]
  /\ failedQueue' = <<>>
  /\ storage' = [token |-> 0, refreshToken |-> 0]
  /\ navigating' = TRUE
  /\ isRefreshing' = FALSE
  /\ UNCHANGED onAuthPage
  /\ UNCHANGED <<serverSide, monitorSide>>

\* The navigation to /auth/login takes place: the page's module state is
\* created anew and the promises of the page left behind are gone.
PageLoad ==
  /\ navigating
  /\ isRefreshing' = FALSE
  /\ failedQueue' = <<>>
  /\ calls' = [c \in Calls |->
                 IF calls[c].pc \in {"sent", "replayed", "queued", "refreshing"}
                 THEN [calls[c] EXCEPT !.pc = "unloaded"]
                 ELSE calls[c]]
  /\ onAuthPage' = TRUE
  /\ navigating' = FALSE
  /\ UNCHANGED storage
  /\ UNCHANGED <<serverSide, monitorSide>>

\* --------------------------------------------------------- PerformanceMonitor
\* `private metrics = []; private queryMetrics = []`.
MonitorConstructed ==
  /\ metrics = <<>>
  /\ queryMetrics = <<>>
  /\ recorded = [api |-> 0, query |-> 0]

\* Variant: the oldest maxMetrics samples are kept.
TrimmedOldest(buffer) ==
  IF Len(buffer) > maxMetrics THEN SubSeq(buffer, 1, maxMetrics) ELSE buffer

\* `if (length > maxMetrics) buffer = buffer.slice(-maxMetrics)`.
Trimmed(buffer) ==
  IF Len(buffer) > maxMetrics
  THEN SubSeq(buffer, Len(buffer) - maxMetrics + 1, Len(buffer))
  ELSE buffer

\* A buffer takes MaxRecordCalls samples from empty, and as many past its
\* capacity from two short of it.
CanRecord(n) ==
  \/ n < MaxRecordCalls
  \/ n >= maxMetrics - 2 /\ n < maxMetrics + MaxRecordCalls

\* recordApiMetric(metric): the sample is stamped with its place in the
\* recording order.
RecordApiMetric ==
  /\ CanRecord(recorded.api)
  /\ recorded' = [recorded EXCEPT !.api = @ + 1]
  /\ metrics' = Trimmed(Append(metrics, recorded.api + 1))
  /\ UNCHANGED queryMetrics
  /\ UNCHANGED <<serverSide, clientSide>>

\* recordQueryMetric(metric).
RecordQueryMetric ==
  /\ CanRecord(recorded.query)
  /\ recorded' = [recorded EXCEPT !.query = @ + 1]
  /\ queryMetrics' = Trimmed(Append(queryMetrics, recorded.query + 1))
  /\ UNCHANGED metrics
  /\ UNCHANGED <<serverSide, clientSide>>

\* ------------------------------------------------------------------ spec
\* The seeded catalog: every furniture row exists, two categories.
SeedFurniture(n) == [f \in 1..n |-> [price |-> 100, categoryId |-> 1 + (f % 2)]]

RECURSIVE SeqsUpTo(_, _)
SeqsUpTo(S, n) ==
  IF n = 0 THEN {<<>>}
  ELSE LET shorter == SeqsUpTo(S, n - 1)
       IN shorter \cup {Append(q, x) : q \in {t \in shorter : Len(t) = n - 1}, x \in S}

\* The items arrays a request body may carry (entries in furniture-id order).
BodyItems ==
  {items \in SeqsUpTo([furnitureId : ReqFurnIds, quantity : BodyQty], MaxItems) :
     \A i, j \in DOMAIN items : i < j => items[i].furnitureId <= items[j].furnitureId}

ServerSeeded ==
  /\ furniture = SeedFurniture(NFurn)
  /\ cartItems = {}
  /\ orders = <<>>
  /\ reviews = {}
  /\ req = [s \in Slots |-> Idle]
  /\ response = NoResponse
  /\ recommendations = NoRecommendations

Init == ServerSeeded /\ ClientLoaded /\ MonitorConstructed

\* Requests for the checkout, order, cart and catalog handlers.
Next ==
  \/ \E s \in Slots, u \in Users \cup {NoUser}, items \in BodyItems : CanCreate /\ PlaceOrderRead(s, u, items)
  \/ \E s \in Slots : PlaceOrderCreate(s)
  \/ \E s \in Slots : PlaceOrderClear(s)
  \/ \E s \in Slots, u \in Users, items \in BodyItems : CanCreate /\ CreateOrderRead(s, u, items, FALSE)
  \/ \E s \in Slots : CreateOrderTx(s)
  \/ \E s \in Slots, u \in Users, f \in ReqFurnIds, q \in BodyQty : AddToCartRead(s, u, f, q)
  \/ \E s \in Slots : AddToCartWrite(s)
  \/ \E f \in ReqFurnIds, p \in Prices : UpdateFurniture(f, p)
  \/ \E s \in Slots, id \in 1..MaxOrders, status \in Statuses : UpdateOrderStatusRead(s, id, status)
  \/ \E s \in Slots : UpdateOrderStatusWrite(s)

Spec == Init /\ [][Next]_vars

\* The same requests handled one at a time (a request is answered before the
\* next one arrives).
NextSeq ==
  \/ \E u \in Users \cup {NoUser}, items \in BodyItems : CanCreate /\ PlaceOrderRead(1, u, items)
  \/ PlaceOrderCreate(1)
  \/ PlaceOrderClear(1)
  \/ \E u \in Users, items \in BodyItems : CanCreate /\ CreateOrderRead(1, u, items, FALSE)
  \/ CreateOrderTx(1)
  \/ \E u \in Users, f \in ReqFurnIds, q \in BodyQty : AddToCartRead(1, u, f, q)
  \/ AddToCartWrite(1)
  \/ \E f \in ReqFurnIds, p \in Prices : UpdateFurniture(f, p)
  \/ \E id \in 1..MaxOrders, status \in Statuses : UpdateOrderStatusRead(1, id, status)
  \/ UpdateOrderStatusWrite(1)

SpecSeq == Init /\ [][NextSeq]_vars

\* Requests that create one-item orders (signed in or as a guest) and requests
\* that change the status of an order.
StatusItems == {<<[furnitureId |-> f, quantity |-> 1]>> : f \in FurnIds}

NextStatus ==
  \/ \E s \in Slots, u \in Users, items \in StatusItems : CanCreate /\ PlaceOrderRead(s, u, items)
  \/ \E s \in Slots : PlaceOrderCreate(s)
  \/ \E s \in Slots, u \in Users \cup {NoUser}, items \in StatusItems, g \in BOOLEAN :
       CanCreate /\ CreateOrderRead(s, u, items, g)
  \/ \E s \in Slots : CreateOrderTx(s)
  \/ \E s \in Slots, id \in 1..MaxOrders, status \in Statuses : UpdateOrderStatusRead(s, id, status)
  \/ \E s \in Slots : UpdateOrderStatusWrite(s)

SpecStatus == Init /\ [][NextStatus]_vars

\* Recommendation requests over a catalog with purchase histories: one-item
\* orders of any status, and reviews by users who completed the purchase.
RecOrders ==
  {NewOrder(u, st, 100, <<[furnitureId |-> f, quantity |-> 1, unitPrice |-> 100]>>) :
     u \in Users, st \in Statuses, f \in 1..NRecFurn}

Purchased(u) == {UserOrders(u)[i].furnitureId : i \in DOMAIN UserOrders(u)}

InitRec ==
  /\ furniture = SeedFurniture(NRecFurn)
  /\ cartItems = {}
  /\ orders \in SeqsUpTo(RecOrders, MaxRecOrders)
  /\ reviews \in SUBSET {[id |-> (u - 1) * NRecFurn + f, userId |-> u,
                            furnitureId |-> f, rating |-> 5] :
                             u \in Users, f \in 1..NRecFurn}
  /\ \A rv \in reviews : rv.furnitureId \in Purchased(rv.userId)
  /\ req = [s \in Slots |-> Idle]
  /\ response = NoResponse
  /\ recommendations = NoRecommendations
  /\ ClientLoaded /\ MonitorConstructed

RecLimits == (0..MaxRecLimit) \cup {MaxLimit + 1}

NextRec ==
  \E u \in 1..(NUsers + 1), limit \in RecLimits, excludeId \in 0..NRecFurn :
    GetUserRecommendations(u, limit, excludeId)

SpecRec == InitRec /\ [][NextRec]_vars

\* Requests to the checkout routes, with and without a user, and cart additions.
CheckoutItems == StatusItems \cup {<<>>}

NextCheckout ==
  \/ \E s \in Slots, u \in Users \cup {NoUser}, items \in CheckoutItems :
       CanCreate /\ PlaceOrderRead(s, u, items)
  \/ \E s \in Slots : PlaceOrderCreate(s)
  \/ \E s \in Slots : PlaceOrderClear(s)
  \/ \E s \in Slots, u \in Users \cup {NoUser} : GuestCheckout(s, u)
  \/ \E s \in Slots, u \in Users, f \in FurnIds : AddToCartRead(s, u, f, 1)
  \/ \E s \in Slots : AddToCartWrite(s)

SpecCheckout == Init /\ [][NextCheckout]_vars

\* Requests that create one-item orders, add to the cart and delete furniture.
NextDelete ==
  \/ \E s \in Slots, u \in Users, items \in StatusItems : CanCreate /\ PlaceOrderRead(s, u, items)
  \/ \E s \in Slots : PlaceOrderCreate(s)
  \/ \E s \in Slots, u \in Users, items \in StatusItems : CanCreate /\ CreateOrderRead(s, u, items, FALSE)
  \/ \E s \in Slots : CreateOrderTx(s)
  \/ \E s \in Slots, u \in Users, f \in FurnIds : AddToCartRead(s, u, f, 1)
  \/ \E s \in Slots : AddToCartWrite(s)
  \/ \E s \in Slots, f \in ReqFurnIds : DeleteFurnitureRead(s, f)
  \/ \E s \in Slots : DeleteFurnitureWrite(s)

SpecDelete == Init /\ [][NextDelete]_vars

\* Requests that add to the cart.
NextCart ==
  \/ \E s \in Slots, u \in Users, f \in ReqFurnIds, q \in BodyQty : AddToCartRead(s, u, f, q)
  \/ \E s \in Slots : AddToCartWrite(s)

SpecCart == Init /\ [][NextCart]_vars

\* Requests that create one-item orders, change the status of an order and
\* review a furniture.
ReviewRatings == {0, 1, 5}

NextReview ==
  \/ \E s \in Slots, u \in Users, items \in StatusItems : CanCreate /\ PlaceOrderRead(s, u, items)
  \/ \E s \in Slots : PlaceOrderCreate(s)
  \/ \E s \in Slots, u \in Users, items \in StatusItems : CanCreate /\ CreateOrderRead(s, u, items, FALSE)
  \/ \E s \in Slots : CreateOrderTx(s)
  \/ \E s \in Slots, id \in 1..MaxOrders, status \in Statuses : UpdateOrderStatusRead(s, id, status)
  \/ \E s \in Slots : UpdateOrderStatusWrite(s)
  \/ \E s \in Slots, u \in 1..(NUsers + 1), f \in ReqFurnIds, rating \in ReviewRatings :
       CreateReviewRead(s, u, f, rating)
  \/ \E s \in Slots : CreateReviewExisting(s)
  \/ \E s \in Slots : CreateReviewInsert(s)

SpecReview == Init /\ [][NextReview]_vars

\* Similar-item requests over catalogs of every mix of categories and prices:
\* for a reference price of 100, 70 and 130 are the ends of the range and 131 is
\* outside it.
SimPrices == {70, 100, 130, 131}
SimCategories == {1, 2}

InitSim ==
  /\ furniture \in [1..NSimFurn -> [price : SimPrices, categoryId : SimCategories]]
  /\ cartItems = {}
  /\ orders = <<>>
  /\ reviews = {}
  /\ req = [s \in Slots |-> Idle]
  /\ response = NoResponse
  /\ recommendations = NoRecommendations
  /\ ClientLoaded /\ MonitorConstructed

NextSim ==
  \E f \in 1..(NSimFurn + 1), limit \in RecLimits, edge \in SUBSET {"min", "max"} :
    GetSimilarRecommendations(f, limit, edge)

SpecSim == InitSim /\ [][NextSim]_vars

\* The four recommendation endpoints, with limits in and out of range and ids
\* that exist and that do not.
NextRecAll ==
  \/ \E u \in 1..(NUsers + 1), limit \in RecLimits, excludeId \in 0..NRecFurn :
       GetUserRecommendations(u, limit, excludeId)
  \/ \E limit \in RecLimits, excludeId \in 0..NRecFurn :
       GetPopularItems(limit, excludeId)
  \/ \E c \in CategoryIds \cup {3}, limit \in RecLimits, excludeId \in 0..NRecFurn :
       GetCategoryRecommendations(c, limit, excludeId)
  \/ \E f \in 1..(NRecFurn + 1), limit \in RecLimits, edge \in SUBSET {"min", "max"} :
       GetSimilarRecommendations(f, limit, edge)

\* The catalogs of InitRec with at most one order and no reviews.
InitRecAll == InitRec /\ Len(orders) <= 1 /\ reviews = {}

SpecRecAll == InitRecAll /\ [][NextRecAll]_vars

\* Catalogs whose furniture carries zero to NReviewers reviews of mixed ratings,
\* read through the endpoints that return furniture.  The reviewer ids stand
\* for user rows; no handler of this specification looks a user up.
RatingSamples == {1, 4}

InitRatings ==
  /\ furniture = SeedFurniture(NFurn)
  /\ cartItems = {}
  /\ orders \in {<<>>, <<NewOrder(1, "COMPLETED", 100,
                                 <<[furnitureId |-> 1, quantity |-> 1, unitPrice |-> 100]>>)>>}
  /\ \E rated \in [(1..NReviewers) \X FurnIds -> {0} \cup RatingSamples] :
       reviews = {[id |-> (p[1] - 1) * NFurn + p[2], userId |-> p[1],
                   furnitureId |-> p[2], rating |-> rated[p]] :
                    p \in {q \in DOMAIN rated : rated[q] # 0}}
  /\ req = [s \in Slots |-> Idle]
  /\ response = NoResponse
  /\ recommendations = NoRecommendations
  /\ ClientLoaded /\ MonitorConstructed

NextRatings ==
  \/ \E page \in 1..2, limit \in 1..NFurn : ListFurnitures(page, limit)
  \/ \E id \in ReqFurnIds : GetFurniture(id)
  \/ \E limit \in 1..NFurn, excludeId \in 0..NFurn : GetPopularItems(limit, excludeId)
  \/ \E c \in CategoryIds, limit \in 1..NFurn, excludeId \in 0..NFurn :
       GetCategoryRecommendations(c, limit, excludeId)
  \/ \E f \in FurnIds, limit \in 1..NFurn : GetSimilarRecommendations(f, limit, {})
  \/ \E u \in Users, limit \in 1..NFurn : GetUserRecommendations(u, limit, 0)

SpecRatings == InitRatings /\ [][NextRatings]_vars

\* Concurrent cart-sourced checkouts of a user whose cart already holds rows,
\* and price updates; nothing is added to the cart afterwards.
CanCreateRace == Len(orders) + Cardinality(Creating) < MaxRaceOrders

InitRace ==
  /\ furniture = SeedFurniture(NFurn)
  /\ cartItems \in {rows \in SUBSET [userId : Users, furnitureId : FurnIds,
                                       quantity : 1..MaxQty] :
                      /\ rows # {}
                      /\ \A ci, cj \in rows :
                           ci.userId = cj.userId /\ ci.furnitureId = cj.furnitureId => ci = cj}
  /\ orders = <<>>
  /\ reviews = {}
  /\ req = [s \in Slots |-> Idle]
  /\ response = NoResponse
  /\ recommendations = NoRecommendations
  /\ ClientLoaded /\ MonitorConstructed

NextRace ==
  \/ \E s \in Slots, u \in Users : CanCreateRace /\ PlaceOrderRead(s, u, <<>>)
  \/ \E s \in Slots : PlaceOrderCreate(s)
  \/ \E s \in Slots : PlaceOrderClear(s)
  \/ \E f \in FurnIds, p \in Prices : UpdateFurniture(f, p)

SpecRace == InitRace /\ [][NextRace]_vars

\* The client's api calls on a page: signed in, signed out or with a token and
\* no refresh token, on a page inside or outside /auth/; every call is
\* answered 2xx, 401 or with another error, every refresh succeeds or fails.
StoredTokens ==
  {[token |-> 1, refreshToken |-> 1], [token |-> 1, refreshToken |-> 0],
   [token |-> 0, refreshToken |-> 0]}

InitClient ==
  /\ ServerSeeded /\ MonitorConstructed
  /\ \E stored \in StoredTokens, auth \in BOOLEAN : PageLoaded(stored, auth)

NextClient ==
  \/ \E c \in Calls : Send(c)
  \/ \E c \in Calls, status \in {200, 500} : Respond(c, status)
  \/ \E c \in Calls : Respond401(c)
  \/ \E c \in Calls : RefreshOk(c)
  \/ \E c \in Calls : RefreshFail(c)
  \/ PageLoad

SpecClient == InitClient /\ [][NextClient]_vars

\* Every request sent is answered, every refresh call ends and a navigation
\* that has been started takes place.
SpecClientFair ==
  /\ SpecClient
  /\ \A c \in Calls :
       /\ WF_vars((\E status \in {200, 500} : Respond(c, status)) \/ Respond401(c))
       /\ WF_vars(RefreshOk(c) \/ RefreshFail(c))
  /\ WF_vars(PageLoad)

\* Samples recorded into buffers that are empty or two short of their capacity.
InitMonitor ==
  /\ ServerSeeded /\ ClientLoaded
  /\ \E a, q \in {0, maxMetrics - 2} :
       /\ metrics = [i \in 1..a |-> i]
       /\ queryMetrics = [i \in 1..q |-> i]
       /\ recorded = [api |-> a, query |-> q]

NextMonitor == RecordApiMetric \/ RecordQueryMetric

SpecMonitor == InitMonitor /\ [][NextMonitor]_vars

\* ---------------------------------------------------------------- claims
Terminal == {"COMPLETED", "CANCELLED"}
CartRowsAfter(u) == {ci \in cartItems' : ci.userId = u}
HasMissing(items) == \E i \in DOMAIN items : items[i].furnitureId \notin DOMAIN furniture

\* C1: while a cart-sourced checkout has created its order, the cart rows the
\* order was built from are gone: no state shows the order together with them.
C1_OrderAndCartClearAtomic ==
  \A s \in Slots :
    req[s].op = "placeOrder" /\ req[s].pc = "clear" => CartRows(req[s].userId) = {}

\* C2: the status of an order changes only from PENDING, to COMPLETED or to
\* CANCELLED; a COMPLETED or CANCELLED order keeps its status in every step.
C2_StatusMonotonic ==
  [][\A i \in DOMAIN orders :
       orders'[i].status # orders[i].status =>
         orders[i].status = "PENDING" /\ orders'[i].status \in Terminal]_vars

\* C3: a status request for a COMPLETED or CANCELLED order with a different
\* target is answered 400 and nothing is written; for a PENDING order a request
\* for COMPLETED or CANCELLED passes the check and its update stores the target.
C3_TransitionCheck ==
  [][/\ \A s \in Slots, id \in DOMAIN orders, status \in Statuses :
          UpdateOrderStatusRead(s, id, status) =>
            /\ (orders[id].status \in Terminal /\ status # orders[id].status) =>
                 /\ response'.op = "updateOrderStatus" /\ response'.code = 400
                 /\ orders' = orders /\ req' = req
            /\ (orders[id].status = "PENDING" /\ status \in Terminal) =>
                 /\ req'[s].op = "updateOrderStatus" /\ req'[s].pc = "update"
                 /\ req'[s].orderId = id /\ req'[s].status = status
     /\ \A s \in Slots :
          UpdateOrderStatusWrite(s) =>
            /\ orders'[req[s].orderId].status = req[s].status
            /\ response'.op = "updateOrderStatus" /\ response'.code = 200]_vars

C3_Witness ==
  /\ response.op = "updateOrderStatus" /\ response.code = 400
  /\ \E i \in DOMAIN orders : orders[i].status \in Terminal

\* C4: the totalAmount of every order is the sum of unitPrice * quantity over
\* its items.
C4_TotalIsSum ==
  \A i \in DOMAIN orders : orders[i].totalAmount = ItemsSum(orders[i].items)

C4_Witness ==
  \E i \in DOMAIN orders :
    /\ Len(orders[i].items) = 2
    /\ orders[i].items[1].quantity = 2
    /\ orders[i].items[1].unitPrice # orders[i].items[2].unitPrice
    /\ orders[i].status = "CANCELLED"

\* C5: an explicit items list that names a furniture id without a row is
\* answered 404 by placeOrder and by createOrder, the request ends there, and no
\* order, order item or cart row is written.
C5_MissingFurnitureAborts ==
  [][\A s \in Slots, u \in Users, items \in BodyItems :
       (Len(items) > 0 /\ HasMissing(items)) =>
         /\ PlaceOrderRead(s, u, items) =>
              /\ response'.op = "placeOrder" /\ response'.code = 404
              /\ req' = req /\ orders' = orders /\ cartItems' = cartItems
         /\ (SchemaOk(items) /\ CreateOrderRead(s, u, items, FALSE)) =>
              /\ response'.op = "createOrder" /\ response'.code = 404
              /\ req' = req /\ orders' = orders /\ cartItems' = cartItems]_vars

C5_Witness ==
  /\ response.op \in {"placeOrder", "createOrder"} /\ response.code = 404
  /\ cartItems # {}
  /\ orders = <<>>

\* C6: a step that creates an order from an explicit items list leaves every
\* cart row as it was.
C6_ExplicitOrderKeepsCart ==
  [][\A s \in Slots :
       (/\ req[s].pc \in {"create", "tx"} /\ ~req[s].shouldClearCart
        /\ (PlaceOrderCreate(s) \/ CreateOrderTx(s))
        /\ Len(orders') > Len(orders)) => cartItems' = cartItems]_vars

\* C7: the step that completes a cart-sourced checkout leaves the user's cart
\* without rows and answers 201; a checkout deletes cart rows only in that step,
\* after its order was created, and a checkout that fails deletes nothing.
C7_CartClearedOnlyWithOrder ==
  [][/\ \A s \in Slots :
          PlaceOrderClear(s) =>
            /\ CartRowsAfter(req[s].userId) = {}
            /\ response'.code = 201 /\ response'.shouldClearCart
            /\ \E i \in DOMAIN orders :
                 orders[i].userId = req[s].userId /\ orders[i].status = "COMPLETED"
     /\ \A s \in Slots :
          (req[s].op = "placeOrder" /\ req[s].pc = "create" /\ PlaceOrderCreate(s))
            => cartItems' = cartItems
     /\ (response'.op = "placeOrder" /\ ~(response'.code = 201 /\ response'.shouldClearCart))
          => cartItems' = cartItems]_vars

C7_Witness ==
  /\ response.op = "placeOrder" /\ response.code = 201 /\ response.shouldClearCart
  /\ cartItems = {}
  /\ \E i \in DOMAIN orders : Len(orders[i].items) = 2

\* C8: no item of the collaborative or of the category-based tier of the user
\* recommendations is a furniture the user bought in a COMPLETED order.
C8_NoPurchasedFromFirstTiers ==
  \A i \in DOMAIN recommendations.items :
    recommendations.items[i].tier \in {"collaborative", "category"} =>
      recommendations.items[i].id \notin Purchased(recommendations.userId)

\* C9: the unitPrice of an order item is the furniture price read by the request
\* that created the order, and no step changes the items or the totalAmount of an
\* existing order.
C9_UnitPriceSnapshot ==
  [][/\ \A i \in DOMAIN orders :
          orders'[i].items = orders[i].items /\ orders'[i].totalAmount = orders[i].totalAmount
     /\ \A s \in Slots :
          (req[s].pc = "done" /\ req'[s].pc \in {"create", "tx"}) =>
            \A k \in DOMAIN req'[s].itemsData :
              req'[s].itemsData[k].unitPrice = furniture[req'[s].itemsData[k].furnitureId].price
     /\ \A s \in Slots :
          ((PlaceOrderCreate(s) \/ CreateOrderTx(s)) /\ Len(orders') > Len(orders)) =>
            orders'[Len(orders')].items = req[s].itemsData]_vars

C9_Witness ==
  \E i \in DOMAIN orders : \E k \in DOMAIN orders[i].items :
    orders[i].items[k].unitPrice # furniture[orders[i].items[k].furnitureId].price

\* C10: every order has at least one item, every item a quantity of at least 1,
\* and every order a positive totalAmount.
C10_OrdersWellFormed ==
  \A i \in DOMAIN orders :
    /\ Len(orders[i].items) >= 1
    /\ \A k \in DOMAIN orders[i].items : orders[i].items[k].quantity >= 1
    /\ orders[i].totalAmount > 0

\* C11: the items of a user recommendation response have pairwise different
\* furniture ids.
C11_NoDuplicateIds ==
  recommendations.algorithm \in {"hybrid", "popular"} =>
    \A i, j \in DOMAIN recommendations.items :
      recommendations.items[i].id = recommendations.items[j].id => i = j

C11_Witness ==
  /\ recommendations.algorithm = "hybrid"
  /\ \E i, j, k \in DOMAIN recommendations.items :
       /\ recommendations.items[i].tier = "collaborative"
       /\ recommendations.items[j].tier = "category"
       /\ recommendations.items[k].tier = "popular"

\* C12: a user recommendation response holds at most `limit` items.
C12_AtMostLimit ==
  recommendations.algorithm \in {"hybrid", "popular"} =>
    Len(recommendations.items) <= recommendations.limit

C12_Witness ==
  /\ recommendations.algorithm = "hybrid"
  /\ recommendations.limit = 2
  /\ Len(recommendations.items) = 2
  /\ recommendations.excludeId = 0

\* C13: for a user without an item in a COMPLETED order the label is `popular`
\* and no returned item has the id given as excludeId.
C13_NoHistoryIsPopular ==
  (response.op = "getUserRecommendations" /\ response.code = 200
   /\ UserOrders(recommendations.userId) = <<>>) =>
    /\ recommendations.algorithm = "popular"
    /\ \A i \in DOMAIN recommendations.items :
         /\ recommendations.items[i].id # recommendations.excludeId
         /\ recommendations.items[i].tier = "popular"

C13_Witness ==
  /\ response.op = "getUserRecommendations" /\ response.code = 200
  /\ recommendations.algorithm = "popular"
  /\ recommendations.excludeId \in DOMAIN furniture
  /\ Len(recommendations.items) = 3
  /\ \E i \in DOMAIN orders :
       orders[i].userId = recommendations.userId /\ orders[i].status = "CANCELLED"

\* C14: every item of a similar-items response has the category of the reference
\* item, a price between 0.7 and 1.3 times its price, and is not the reference
\* item; the response holds at most `limit` items.
C14_SimilarItems ==
  recommendations.algorithm = "content-based" =>
    /\ Len(recommendations.items) <= recommendations.limit
    /\ \A i \in DOMAIN recommendations.items :
         LET item == furniture[recommendations.items[i].id]
             ref == furniture[recommendations.refId]
         IN /\ item.categoryId = ref.categoryId
            /\ 7 * ref.price <= 10 * item.price
            /\ 10 * item.price <= 13 * ref.price
            /\ recommendations.items[i].id # recommendations.refId

C14_Witness ==
  /\ recommendations.algorithm = "content-based"
  /\ Len(recommendations.items) = 1
  /\ recommendations.limit = 1
  /\ furniture[recommendations.refId].price = 100
  /\ furniture[recommendations.items[1].id].price = 130
  /\ \E f \in DOMAIN furniture :
       /\ furniture[f].price = 70
       /\ furniture[f].categoryId = furniture[recommendations.refId].categoryId

\* C15: a review of furniture f by user u is inserted only while u has an item
\* for f in a COMPLETED order.
C15_ReviewNeedsCompletedPurchase ==
  [][\A s \in Slots :
       (CreateReviewInsert(s) /\ reviews' # reviews) =>
         HasPurchased(req[s].userId, req[s].furnitureId)]_vars

\* C16: no two reviews have the same user and furniture; a request that finds
\* or hits a review of its pair fails and leaves the table as it is.
C16_OneReviewPerPair ==
  [][/\ \A x, y \in reviews' :
          (x.userId = y.userId /\ x.furnitureId = y.furnitureId) => x = y
     /\ \A s \in Slots :
          (/\ req[s].op = "createReview"
           /\ ExistingReview(req[s].userId, req[s].furnitureId) # {}
           /\ CreateReviewExisting(s) \/ CreateReviewInsert(s)) =>
            /\ reviews' = reviews
            /\ response'.op = "createReview" /\ response'.code \in {400, 409}]_vars

C16_Witness ==
  /\ response.op = "createReview" /\ response.code = 409
  /\ Cardinality(reviews) = 1

\* C19: a createReview request whose lookup finds a review of its pair is
\* answered 409.
C19_DuplicateIsConflict ==
  [][\A s \in Slots :
       (/\ ExistingReview(req[s].userId, req[s].furnitureId) # {}
        /\ CreateReviewExisting(s)) => response'.code = 409]_vars

\* C17: no two cart rows of a user have the same furniture; an addToCart that
\* found a row of the furniture sets its quantity to the quantity found plus the
\* requested one and adds no row, and one that found none adds exactly one row
\* with the requested quantity.
C17_OneCartItemPerFurniture ==
  [][/\ \A x, y \in cartItems' :
          (x.userId = y.userId /\ x.furnitureId = y.furnitureId) => x = y
     /\ \A s \in Slots :
          (AddToCartWrite(s) /\ response'.code \in {200, 201}) =>
            LET r == req[s]
                others == {ci \in cartItems : ci.userId # r.userId \/ ci.furnitureId # r.furnitureId}
            IN /\ response'.code = 200 <=> r.existing > 0
               /\ cartItems' = others \cup
                    {[userId |-> r.userId, furnitureId |-> r.furnitureId,
                      quantity |-> r.existing + r.quantity]}]_vars

C17_Witness ==
  /\ response.op = "addToCart" /\ response.code = 200
  /\ \E ci \in cartItems : ci.quantity = 2
  /\ Cardinality(cartItems) = 2

\* C18: every order item references a furniture row, and a delete request for
\* a furniture that has an order item is answered 400 and deletes nothing,
\* whether the item is there when the handler reads or only when it deletes.
C18_OrderedFurnitureKept ==
  [][/\ \A n \in DOMAIN orders' : \A i \in DOMAIN orders'[n].items :
          orders'[n].items[i].furnitureId \in DOMAIN furniture'
     /\ \A s \in Slots, f \in DOMAIN furniture :
          (OrderItemCount(f, Len(orders)) > 0 /\ DeleteFurnitureRead(s, f)) =>
            /\ response'.op = "deleteFurniture" /\ response'.code = 400
            /\ furniture' = furniture /\ req' = req
     /\ \A s \in Slots :
          (/\ req[s].furnitureId \in DOMAIN furniture
           /\ OrderItemCount(req[s].furnitureId, Len(orders)) > 0
           /\ DeleteFurnitureWrite(s)) =>
            /\ response'.op = "deleteFurniture" /\ response'.code = 400
            /\ furniture' = furniture]_vars

C18_Witness ==
  /\ response.op = "deleteFurniture" /\ response.code = 400
  /\ DOMAIN furniture = FurnIds
  /\ \E n \in DOMAIN orders : orders[n].status = "PENDING"

\* C20: POST /checkout/place without a user and every POST /checkout/guest are
\* answered 401 and write nothing, and every order the checkout creates has a user.
C20_CheckoutNeedsUser ==
  [][/\ \A s \in Slots, items \in CheckoutItems :
          PlaceOrderRead(s, NoUser, items) =>
            /\ response'.op = "placeOrder" /\ response'.code = 401
            /\ orders' = orders /\ cartItems' = cartItems /\ req' = req
     /\ \A s \in Slots, u \in Users \cup {NoUser} :
          GuestCheckout(s, u) =>
            /\ response'.op = "guestCheckout" /\ response'.code = 401
            /\ orders' = orders /\ cartItems' = cartItems /\ req' = req
     /\ \A n \in DOMAIN orders' : orders'[n].userId \in Users]_vars

C20_Witness ==
  /\ response.op = "guestCheckout" /\ response.code = 401
  /\ cartItems # {}
  /\ \E n \in DOMAIN orders : orders[n].userId \in Users

\* C21: every furniture item a list, detail or recommendation endpoint returns
\* carries reviewCount equal to the number of its reviews and averageRating
\* equal to the sum of their ratings divided by that number, or null when the
\* item has no reviews.
C21_RatingsSerialized ==
  response.code = 200 /\ response.op \in {"listFurnitures", "getFurniture", "getPopularItems",
                                          "getCategoryRecommendations",
                                          "getSimilarRecommendations",
                                          "getUserRecommendations"} =>
    \A i \in DOMAIN recommendations.items :
      LET item == recommendations.items[i]
          rated == {rv \in reviews : rv.furnitureId = item.id}
      IN /\ item.reviewCount = Cardinality(rated)
         /\ item.averageRating.null <=> rated = {}
         /\ rated # {} =>
              item.averageRating.num * Cardinality(rated) =
                RatingSum(rated) * item.averageRating.den

C21_Witness ==
  /\ response.op = "listFurnitures" /\ response.code = 200
  /\ Len(recommendations.items) = 2
  /\ \E i, j \in DOMAIN recommendations.items :
       /\ recommendations.items[i].reviewCount = 2
       /\ recommendations.items[i].averageRating = [null |-> FALSE, num |-> 5, den |-> 2]
       /\ recommendations.items[j].averageRating.null

\* C22: on each of the four recommendation endpoints a limit below 1 or above
\* 50 is answered 400 and, with a limit in range, a user, category or furniture
\* that does not exist is answered 404; neither answer carries recommendations.
C22_LimitAndNotFound ==
  [][\A limit \in RecLimits, excludeId \in 0..NRecFurn :
       /\ (/\ limit < 1 \/ limit > 50
           /\ \/ \E u \in 1..(NUsers + 1) : GetUserRecommendations(u, limit, excludeId)
              \/ GetPopularItems(limit, excludeId)
              \/ \E c \in CategoryIds \cup {3} :
                   GetCategoryRecommendations(c, limit, excludeId)
              \/ \E f \in 1..(NRecFurn + 1), edge \in SUBSET {"min", "max"} :
                   GetSimilarRecommendations(f, limit, edge))
            => (response'.code = 400 /\ recommendations'.items = <<>>)
       /\ (/\ limit >= 1 /\ limit <= 50
           /\ \/ \E u \in 1..(NUsers + 1) \ Users :
                   GetUserRecommendations(u, limit, excludeId)
              \/ \E c \in {1, 2, 3} \ CategoryIds :
                   GetCategoryRecommendations(c, limit, excludeId)
              \/ \E f \in 1..(NRecFurn + 1) \ DOMAIN furniture,
                     edge \in SUBSET {"min", "max"} :
                   GetSimilarRecommendations(f, limit, edge))
            => (response'.code = 404 /\ recommendations'.items = <<>>)]_vars

C22_Witness ==
  /\ response.op = "getCategoryRecommendations" /\ response.code = 404
  /\ recommendations = NoRecommendations

\* C23: for an existing user with at least one order and a valid limit, the
\* user endpoint returns exactly min(limit, number of furniture rows other
\* than excludeId) items.
C23_HistoryFillsLimit ==
  (/\ response.op = "getUserRecommendations" /\ response.code = 200
   /\ UserOrders(recommendations.userId) # <<>>) =>
    LET others == Cardinality(DOMAIN furniture \ {recommendations.excludeId})
    IN Len(recommendations.items) =
         IF recommendations.limit <= others THEN recommendations.limit ELSE others

C23_Witness ==
  /\ response.op = "getUserRecommendations" /\ response.code = 200
  /\ UserOrders(recommendations.userId) # <<>>
  /\ recommendations.excludeId \in DOMAIN furniture
  /\ recommendations.limit = MaxRecLimit
  /\ Len(recommendations.items) = MaxRecLimit
  /\ \E i \in DOMAIN recommendations.items : recommendations.items[i].tier = "popular"

\* C24: an order whose items all name existing furniture is not answered
\* NotFound, also when one furniture id appears in more than one entry.
C24_ExistingItemsNotNotFound ==
  [][\A s \in Slots, u \in Users, items \in BodyItems :
       (Len(items) > 0 /\ ~HasMissing(items)) =>
         /\ PlaceOrderRead(s, u, items) => response'.code # 404
         /\ CreateOrderRead(s, u, items, FALSE) => response'.code # 404]_vars

\* C25: every cart row a cart-sourced checkout deletes is in the created order
\* with the same furniture and quantity, also when an addToCart of the same
\* user runs between the checkout's cart read and its cart delete.
C25_ClearedRowsWereOrdered ==
  [][\A s \in Slots :
       PlaceOrderClear(s) =>
         \A ci \in cartItems \ cartItems' :
           \E n \in DOMAIN orders :
             /\ orders[n].userId = ci.userId
             /\ \E i \in DOMAIN orders[n].items :
                  /\ orders[n].items[i].furnitureId = ci.furnitureId
                  /\ orders[n].items[i].quantity = ci.quantity]_vars

\* C26: of two concurrent cart-sourced checkouts of one user at most one
\* creates an order from the cart's rows: no furniture of the cart is in the
\* items of two orders.
C26_CartOrderedOnce ==
  \A f \in FurnIds :
    Cardinality({n \in DOMAIN orders :
                   \E i \in DOMAIN orders[n].items : orders[n].items[i].furnitureId = f}) <= 1

\* C27: a successful POST /cart/add of quantity q leaves the cart's quantity
\* of the furniture q above what it was before the write, so two successful
\* additions q1 and q2 raise it by q1 + q2 also when they run concurrently.
QtyAfter(u, f) ==
  IF \E ci \in CartRowsAfter(u) : ci.furnitureId = f
  THEN (CHOOSE ci \in CartRowsAfter(u) : ci.furnitureId = f).quantity
  ELSE 0

C27_AdditionsNotLost ==
  [][\A s \in Slots :
       (AddToCartWrite(s) /\ response'.code \in {200, 201}) =>
         QtyAfter(req[s].userId, req[s].furnitureId) =
           ExistingQty(req[s].userId, req[s].furnitureId) + req[s].quantity]_vars

\* C28: every call that received a 401 and waits (in the queue or for its own
\* refresh) is eventually replayed, rejected or left behind by a page load,
\* and isRefreshing is true only while a refresh call is in flight.
Settled == {"resolved", "rejected", "unloaded"}

C28_Every401Settled ==
  /\ [](isRefreshing => Refreshing # {})
  /\ \A c \in Calls :
       (calls[c].pc \in {"queued", "refreshing"}) ~> (calls[c].pc \in Settled)

MostRecent(buffer, n) ==
  /\ Len(buffer) <= 1000
  /\ \A i \in DOMAIN buffer : buffer[i] = n - Len(buffer) + i

C30_BuffersHoldMostRecent ==
  MostRecent(metrics, recorded.api) /\ MostRecent(queryMetrics, recorded.query)

C30_Witness ==
  /\ recorded.api > 1000 /\ Len(metrics) = 1000 /\ metrics[1] = recorded.api - 999
  /\ recorded.query > 1000 /\ Len(queryMetrics) = 1000

====
